---- MODULE Spec2Model ----
(***************************************************************************)
(* Model of main_agent_11262025/agent.py: the profile transform            *)
(* read_user_profile, the keyword classifier analyze_user_emotion and the  *)
(* agent composition root_agent.                                           *)
(*                                                                         *)
(* Python values are modelled as follows.                                  *)
(*   number   [ty |-> "int" | "float", n |-> scaled integer]               *)
(*            preference scores are held in tenths (0.9 is n = 9, the      *)
(*            int 1 is n = 10), budgets in whole USD                       *)
(*   None     [ty |-> "NoneType", n |-> 0]                                 *)
(*   dict     a record whose DOMAIN is the set of keys present; the        *)
(*            preference_vector dict is the sequence of its <<key, value>> *)
(*            items in insertion order, keys pairwise distinct             *)
(*   str      a TLA+ string for category and transport names; user text is *)
(*            a sequence of one-character strings so that lower() and the  *)
(*            substring test are computed                                  *)
(*   outcome  [kind |-> "return", value |-> v] or                          *)
(*            [kind |-> "raise", exc |-> name of the exception]            *)
(***************************************************************************)
EXTENDS Integers, Sequences, FiniteSets, TLC

(* ---------------------------- bounds ----------------------------------- *)

MaxPrefs == 2

MaxTokens == 3

NumCallers == 2

NumSessions == 2

(* ---------------------------- values ----------------------------------- *)

PyFloat(n) == [ty |-> "float", n |-> n]

PyInt(n) == [ty |-> "int", n |-> n]

None == [ty |-> "NoneType", n |-> 0]

Return(v) == [kind |-> "return", value |-> v]

Raise(e) == [kind |-> "raise", exc |-> e]

NotCalled == [kind |-> "not_called"]

(* ------------------- pydantic models, lines 11-47 ---------------------- *)

\* a float field accepts an int or a float and stores a float; no bound is
\* declared on any float field of the module
FloatField(v) ==
    IF v.ty \in {"int", "float"} THEN Return(PyFloat(v.n)) ELSE Raise("ValidationError")

\* KeyValuePair storing the score as a percentage instead of the given value
KeyValuePair_percent(k, v) ==
    IF FloatField(v).kind = "return"
    THEN Return([key |-> k, value |-> PyFloat(FloatField(v).value.n * 10)])
    ELSE Raise("ValidationError")

\* KeyValuePair(key=k, value=v).model_dump()
KeyValuePair(k, v) ==
    IF FloatField(v).kind = "return"
    THEN Return([key |-> k, value |-> FloatField(v).value])
    ELSE Raise("ValidationError")

\* UserProfile(**profile_data): every entry is a KeyValuePair, the budget is a
\* float field, preferred_transport_mode falls back to "Walk" when not passed
UserProfile(profile_data) ==
    IF /\ "preference_vector" \in DOMAIN profile_data
       /\ \A i \in DOMAIN profile_data.preference_vector :
             KeyValuePair(profile_data.preference_vector[i].key,
                          profile_data.preference_vector[i].value).kind = "return"
       /\ "max_daily_budget" \in DOMAIN profile_data
       /\ FloatField(profile_data.max_daily_budget).kind = "return"
    THEN Return([preference_vector |-> profile_data.preference_vector,
                 max_daily_budget |-> FloatField(profile_data.max_daily_budget).value,
                 preferred_transport_mode |->
                     IF "preferred_transport_mode" \in DOMAIN profile_data
                     THEN profile_data.preferred_transport_mode ELSE "Walk"])
    ELSE Raise("ValidationError")

(* ------------------- read_user_profile, lines 60-79 -------------------- *)

\* the comprehension building the list back to front
RECURSIVE list_vector_reversed(_)
list_vector_reversed(items) ==
    IF items = <<>> THEN Return(<<>>)
    ELSE LET head == KeyValuePair(items[1][1], items[1][2])
             rest == list_vector_reversed(Tail(items))
         IN  IF head.kind = "raise" THEN head
             ELSE IF rest.kind = "raise" THEN rest
             ELSE Return(rest.value \o <<head.value>>)

\* the list comprehension of lines 66-69 over items, an item sequence
RECURSIVE list_vector(_)
list_vector(items) ==
    IF items = <<>> THEN Return(<<>>)
    ELSE LET head == KeyValuePair(items[1][1], items[1][2])
             rest == list_vector(Tail(items))
         IN  IF head.kind = "raise" THEN head
             ELSE IF rest.kind = "raise" THEN rest
             ELSE Return(<<head.value>> \o rest.value)

\* lines 71-75: the dict literal subscripts all three keys of profile_raw
profile_data(profile_raw, lv) ==
    IF "max_daily_budget" \notin DOMAIN profile_raw THEN Raise("KeyError")
    ELSE IF "preferred_transport_mode" \notin DOMAIN profile_raw THEN Raise("KeyError")
    ELSE Return([preference_vector |-> lv,
                 max_daily_budget |-> profile_raw.max_daily_budget,
                 preferred_transport_mode |-> profile_raw.preferred_transport_mode])

\* the body of read_user_profile run on profile_raw without interruption
read_user_profile(profile_raw) ==
    IF "preference_vector" \notin DOMAIN profile_raw THEN Raise("KeyError")
    ELSE LET lv == list_vector(profile_raw.preference_vector)
         IN  IF lv.kind = "raise" THEN lv
             ELSE LET pd == profile_data(profile_raw, lv.value)
                  IN  IF pd.kind = "raise" THEN pd
                      ELSE IF UserProfile(pd.value).kind = "raise"
                           THEN UserProfile(pd.value)
                      ELSE Return([status |-> "success", profile_data |-> pd.value])

(* ------------------- MOCK_DEFAULT_PROFILE, lines 53-57 ----------------- *)

DefaultProfile ==
    [preference_vector |-> << <<"Nature", PyFloat(9)>>,
                              <<"Culture/History", PyFloat(7)>>,
                              <<"Nightlife", PyFloat(2)>> >>,
     max_daily_budget |-> PyFloat(250),
     preferred_transport_mode |-> "Public Transport"]

(* ------------------- raw profiles the store may hold ------------------- *)

Categories == {"Nature", "Culture/History", "Nightlife"}

Weights == {PyFloat(-1), PyFloat(0), PyFloat(9), PyFloat(10), PyFloat(11), PyInt(10), None}

Budgets == {PyFloat(250), PyFloat(0), PyFloat(-50), PyInt(100), None}

TransportModes == {"Public Transport", "Walk"}

\* the item sequences of dicts with at most MaxPrefs keys
PreferenceVectors ==
    UNION { { s \in [1..n -> Categories \X Weights] :
                \A i, j \in 1..n : i # j => s[i][1] # s[j][1] } : n \in 0..MaxPrefs }

RawProfiles ==
    {DefaultProfile}
    \cup { [preference_vector |-> pv, max_daily_budget |-> b, preferred_transport_mode |-> m] :
              pv \in PreferenceVectors, b \in Budgets, m \in TransportModes }
    \cup { [preference_vector |-> pv, max_daily_budget |-> b] :
              pv \in PreferenceVectors, b \in Budgets }
    \cup { [preference_vector |-> pv, preferred_transport_mode |-> m] :
              pv \in PreferenceVectors, m \in TransportModes }
    \cup { [max_daily_budget |-> b, preferred_transport_mode |-> m] :
              b \in Budgets, m \in TransportModes }

(* ------------------- MoodAnalysis, lines 37-47 ------------------------- *)

MoodAnalysis(primary_state, mandatory_constraints, budget_sensitivity) ==
    [primary_state |-> primary_state,
     mandatory_constraints |-> mandatory_constraints,
     budget_sensitivity |-> budget_sensitivity]

(* ------------------- str.lower() and the in operator ------------------- *)

UpperCase ==
    <<"A", "B", "C", "D", "E", "F", "G", "H", "I", "J", "K", "L", "M",
      "N", "O", "P", "Q", "R", "S", "T", "U", "V", "W", "X", "Y", "Z">>

LowerCase ==
    <<"a", "b", "c", "d", "e", "f", "g", "h", "i", "j", "k", "l", "m",
      "n", "o", "p", "q", "r", "s", "t", "u", "v", "w", "x", "y", "z">>

LowerChar(c) ==
    IF \E i \in DOMAIN UpperCase : UpperCase[i] = c
    THEN LowerCase[CHOOSE i \in DOMAIN UpperCase : UpperCase[i] = c]
    ELSE c

\* text.lower()
lower(text) == [i \in DOMAIN text |-> LowerChar(text[i])]

\* pattern in text
Contains(pattern, text) ==
    \E i \in 1..(Len(text) - Len(pattern) + 1) :
        SubSeq(text, i, i + Len(pattern) - 1) = pattern

(* ------------------- names bound in the module ------------------------- *)

\* every name agent.py binds at module level (imports, classes, assignments
\* and defs); none of them, and no builtin, is called instruction
ModuleGlobals ==
    {"load_dotenv", "BaseModel", "Field", "List", "Dict", "Optional", "Any",
     "SequentialAgent", "ParallelAgent", "LlmAgent", "ToolContext",
     "google_search", "google_maps_grounding", "FunctionTool",
     "KeyValuePair", "UserProfile", "MoodAnalysis", "MOCK_DEFAULT_PROFILE",
     "read_user_profile", "ProfileReadTool", "analyze_user_emotion",
     "UPA_Agent", "ECA_SYSTEM_PROMPT", "ECA_Agent", "gather_concurrently",
     "synthesizer", "composer_agent", "planner_agent", "ticket_booking_agent",
     "root_agent"}

(* ------------------- analyze_user_emotion, lines 85-121 ---------------- *)

stress == <<"s", "t", "r", "e", "s", "s">>

relax == <<"r", "e", "l", "a", "x">>

StressRelief ==
    MoodAnalysis("Stress Relief", <<"Quiet", "Low-Energy", "Nature", "Comfort">>, "Flexible")

General == MoodAnalysis("General", <<>>, "Normal")

\* lines 92-95 evaluate the global name instruction while building messages;
\* lines 108-121 are the keyword branch
analyze_user_emotion(user_text) ==
    IF "instruction" \notin ModuleGlobals THEN Raise("NameError")
    ELSE IF Contains(stress, lower(user_text)) \/ Contains(relax, lower(user_text))
         THEN Return(StressRelief)
         ELSE Return(General)

(* ------------------- user texts ---------------------------------------- *)

Tokens ==
    {stress, <<"S", "T", "R", "E", "S", "S">>, <<"R", "e", "l", "a", "x">>,
     <<"s", "t", "r", "e">>, <<"s", "s">>, <<"r", "e", "L">>, <<"A", "X">>,
     <<"f", "u", "n">>, <<" ">>}

RECURSIVE TextsOf(_)
TextsOf(n) ==
    IF n = 0 THEN {<<>>}
    ELSE TextsOf(n - 1) \cup {t \o w : t \in TextsOf(n - 1), w \in Tokens}

Texts == TextsOf(MaxTokens)

(* ------------------- the agent composition, lines 123-181 -------------- *)

UPA_Agent ==
    [name |-> "User_Profile_Agent", class |-> "LlmAgent",
     sub_agents |-> <<>>, output_key |-> "user_profile"]

ECA_Agent ==
    [name |-> "Emotional_Context_Agent", class |-> "LlmAgent",
     sub_agents |-> <<>>, output_key |-> "emotional_context"]

gather_concurrently ==
    [name |-> "ConcurrentFetch", class |-> "ParallelAgent",
     sub_agents |-> <<UPA_Agent.name, ECA_Agent.name>>, output_key |-> ""]

synthesizer ==
    [name |-> "Synthesizer", class |-> "LlmAgent",
     sub_agents |-> <<>>, output_key |-> ""]

\* the composition with the synthesizer listed before the parallel fetch
composer_agent_swapped ==
    [name |-> "FetchAndSynthesize", class |-> "SequentialAgent",
     sub_agents |-> <<synthesizer.name, gather_concurrently.name>>, output_key |-> ""]

composer_agent ==
    [name |-> "FetchAndSynthesize", class |-> "SequentialAgent",
     sub_agents |-> <<gather_concurrently.name, synthesizer.name>>, output_key |-> ""]

planner_agent ==
    [name |-> "logistics_agent", class |-> "LlmAgent",
     sub_agents |-> <<>>, output_key |-> "travel_route"]

ticket_booking_agent ==
    [name |-> "ticket_booking_agent", class |-> "LlmAgent",
     sub_agents |-> <<>>, output_key |-> "flight_schedule"]

root_agent ==
    [name |-> "TripPlanningAgent", class |-> "SequentialAgent",
     sub_agents |-> <<composer_agent.name, planner_agent.name, ticket_booking_agent.name>>,
     output_key |-> ""]

Agents ==
    {UPA_Agent, ECA_Agent, gather_concurrently, synthesizer, composer_agent,
     planner_agent, ticket_booking_agent, root_agent}

AgentNames == {a.name : a \in Agents}

Agent(n) == CHOOSE a \in Agents : a.name = n

(* ---------------------------- state ------------------------------------ *)

Callers == 1..NumCallers

Sessions == 1..NumSessions

VARIABLES
    MOCK_DEFAULT_PROFILE,   \* the module-level dict of lines 53-57
    profile_result,         \* outcome of the read_user_profile call
    user_input,             \* argument of the analyze_user_emotion call
    emotion_result,         \* outcome of the analyze_user_emotion call
    frame,                  \* per caller: the activation of the function it runs
    status,                 \* per session and agent: "idle", "running" or "done"
    session_state,          \* per session: the output keys written so far
    events                  \* per session: the agents in the order they finished

vars ==
    <<MOCK_DEFAULT_PROFILE, profile_result, user_input, emotion_result,
      frame, status, session_state, events>>

IdleFrame ==
    [pc |-> "idle", fn |-> "", user_input |-> <<>>, i |-> 0,
     list_vector |-> <<>>, profile_data |-> <<>>, ret |-> NotCalled]

NoCallers == [c \in Callers |-> IdleFrame]

NoRuns ==
    /\ status = [s \in Sessions |-> [n \in AgentNames |-> "idle"]]
    /\ session_state = [s \in Sessions |-> {}]
    /\ events = [s \in Sessions |-> <<>>]

(* ------------------- the profile tool, called once --------------------- *)

Init ==
    /\ MOCK_DEFAULT_PROFILE \in RawProfiles
    /\ profile_result = NotCalled
    /\ user_input = <<>>
    /\ emotion_result = NotCalled
    /\ frame = NoCallers
    /\ NoRuns

\* one call of the tool function
ReadUserProfile ==
    /\ profile_result = NotCalled
    /\ profile_result' = read_user_profile(MOCK_DEFAULT_PROFILE)
    /\ UNCHANGED <<MOCK_DEFAULT_PROFILE, user_input, emotion_result,
                   frame, status, session_state, events>>

Next == ReadUserProfile

Spec == Init /\ [][Next]_vars

(* ------------------- the classifier, called once ----------------------- *)

InitEmotion ==
    /\ MOCK_DEFAULT_PROFILE = DefaultProfile
    /\ profile_result = NotCalled
    /\ user_input \in Texts
    /\ emotion_result = NotCalled
    /\ frame = NoCallers
    /\ NoRuns

AnalyzeUserEmotion ==
    /\ emotion_result = NotCalled
    /\ emotion_result' = analyze_user_emotion(user_input)
    /\ UNCHANGED <<MOCK_DEFAULT_PROFILE, profile_result, user_input,
                   frame, status, session_state, events>>

NextEmotion == AnalyzeUserEmotion

SpecEmotion == InitEmotion /\ [][NextEmotion]_vars

(* ------------------- concurrent callers -------------------------------- *)
(* Each caller runs one function at a time, a statement per step.  The     *)
(* local profile_raw of line 63 is a reference to the module-level dict,   *)
(* so every later read of profile_raw reads MOCK_DEFAULT_PROFILE.          *)

ConcurrentProfiles ==
    {DefaultProfile,
     [preference_vector |-> << <<"Nature", PyInt(10)>>, <<"Nightlife", PyFloat(11)>> >>,
      max_daily_budget |-> PyFloat(-50)],
     [preference_vector |-> << <<"Nature", None>> >>,
      max_daily_budget |-> PyFloat(0), preferred_transport_mode |-> "Walk"],
     [preference_vector |-> <<>>,
      max_daily_budget |-> None, preferred_transport_mode |-> "Walk"],
     [max_daily_budget |-> PyFloat(250), preferred_transport_mode |-> "Walk"]}

ConcurrentTexts == {stress, <<"f", "u", "n">>}

InitConcurrent ==
    /\ MOCK_DEFAULT_PROFILE \in ConcurrentProfiles
    /\ profile_result = NotCalled
    /\ user_input = <<>>
    /\ emotion_result = NotCalled
    /\ frame = NoCallers
    /\ NoRuns

Others == <<profile_result, user_input, emotion_result, status, session_state, events>>

\* a caller enters read_user_profile
CallReadUserProfile(c) ==
    /\ frame[c].pc = "idle"
    /\ frame' = [frame EXCEPT ![c] = [IdleFrame EXCEPT !.pc = "L63", !.fn = "read_user_profile"]]
    /\ UNCHANGED <<MOCK_DEFAULT_PROFILE, Others>>

\* a caller enters analyze_user_emotion with some text
CallAnalyzeUserEmotion(c) ==
    /\ frame[c].pc = "idle"
    /\ \E text \in ConcurrentTexts :
          frame' = [frame EXCEPT ![c] = [IdleFrame EXCEPT !.pc = "L92",
                                                          !.fn = "analyze_user_emotion",
                                                          !.user_input = text]]
    /\ UNCHANGED <<MOCK_DEFAULT_PROFILE, Others>>

\* line 63: profile_raw = MOCK_DEFAULT_PROFILE
BindProfileRaw(c) ==
    /\ frame[c].pc = "L63"
    /\ frame' = [frame EXCEPT ![c].pc = "L66"]
    /\ UNCHANGED <<MOCK_DEFAULT_PROFILE, Others>>

\* line 68: profile_raw["preference_vector"].items()
StartItems(c) ==
    /\ frame[c].pc = "L66"
    /\ IF "preference_vector" \in DOMAIN MOCK_DEFAULT_PROFILE
       THEN frame' = [frame EXCEPT ![c].pc = "L67", ![c].i = 1]
       ELSE frame' = [frame EXCEPT ![c].pc = "done", ![c].ret = Raise("KeyError")]
    /\ UNCHANGED <<MOCK_DEFAULT_PROFILE, Others>>

\* line 67: one iteration of the comprehension, or its end
NextItem(c) ==
    /\ frame[c].pc = "L67"
    /\ LET items == MOCK_DEFAULT_PROFILE.preference_vector
           i == frame[c].i
       IN  IF i > Len(items)
           THEN frame' = [frame EXCEPT ![c].pc = "L71"]
           ELSE LET kv == KeyValuePair(items[i][1], items[i][2])
                IN  IF kv.kind = "raise"
                    THEN frame' = [frame EXCEPT ![c].pc = "done", ![c].ret = kv]
                    ELSE frame' = [frame EXCEPT ![c].i = i + 1,
                                                ![c].list_vector = Append(@, kv.value)]
    /\ UNCHANGED <<MOCK_DEFAULT_PROFILE, Others>>

\* lines 71-75 with the missing transport mode filled in by
\* profile_raw.setdefault("preferred_transport_mode", "Walk")
BuildProfileData_setdefault(c) ==
    /\ frame[c].pc = "L71"
    /\ LET raw == IF "preferred_transport_mode" \in DOMAIN MOCK_DEFAULT_PROFILE
                  THEN MOCK_DEFAULT_PROFILE
                  ELSE MOCK_DEFAULT_PROFILE @@ [preferred_transport_mode |-> "Walk"]
           pd == profile_data(raw, frame[c].list_vector)
       IN  /\ MOCK_DEFAULT_PROFILE' = raw
           /\ IF pd.kind = "raise"
              THEN frame' = [frame EXCEPT ![c].pc = "done", ![c].ret = pd]
              ELSE frame' = [frame EXCEPT ![c].pc = "L77", ![c].profile_data = pd.value]
    /\ UNCHANGED Others

\* lines 71-75: profile_data = {...}
BuildProfileData(c) ==
    /\ frame[c].pc = "L71"
    /\ LET pd == profile_data(MOCK_DEFAULT_PROFILE, frame[c].list_vector)
       IN  IF pd.kind = "raise"
           THEN frame' = [frame EXCEPT ![c].pc = "done", ![c].ret = pd]
           ELSE frame' = [frame EXCEPT ![c].pc = "L77", ![c].profile_data = pd.value]
    /\ UNCHANGED <<MOCK_DEFAULT_PROFILE, Others>>

\* line 77: UserProfile(**profile_data)
ValidateSchema(c) ==
    /\ frame[c].pc = "L77"
    /\ LET up == UserProfile(frame[c].profile_data)
       IN  IF up.kind = "raise"
           THEN frame' = [frame EXCEPT ![c].pc = "done", ![c].ret = up]
           ELSE frame' = [frame EXCEPT ![c].pc = "L79"]
    /\ UNCHANGED <<MOCK_DEFAULT_PROFILE, Others>>

\* line 79: return {"status": "success", "profile_data": profile_data}
ReturnSuccess(c) ==
    /\ frame[c].pc = "L79"
    /\ frame' = [frame EXCEPT ![c].pc = "done",
                              ![c].ret = Return([status |-> "success",
                                                 profile_data |-> frame[c].profile_data])]
    /\ UNCHANGED <<MOCK_DEFAULT_PROFILE, Others>>

\* lines 92-121: the body of analyze_user_emotion, which touches no global
AnalyzeBody(c) ==
    /\ frame[c].pc = "L92"
    /\ frame' = [frame EXCEPT ![c].pc = "done",
                              ![c].ret = analyze_user_emotion(frame[c].user_input)]
    /\ UNCHANGED <<MOCK_DEFAULT_PROFILE, Others>>

\* the caller takes the outcome and is free to call again
TakeResult(c) ==
    /\ frame[c].pc = "done"
    /\ frame' = [frame EXCEPT ![c] = IdleFrame]
    /\ UNCHANGED <<MOCK_DEFAULT_PROFILE, Others>>

NextConcurrent ==
    \E c \in Callers :
        \/ CallReadUserProfile(c)
        \/ CallAnalyzeUserEmotion(c)
        \/ BindProfileRaw(c)
        \/ StartItems(c)
        \/ NextItem(c)
        \/ BuildProfileData(c)
        \/ ValidateSchema(c)
        \/ ReturnSuccess(c)
        \/ AnalyzeBody(c)
        \/ TakeResult(c)

SpecConcurrent == InitConcurrent /\ [][NextConcurrent]_vars

(* ------------------- a run of root_agent per session ------------------- *)
(* SequentialAgent runs its sub_agents one after another in list order,    *)
(* ParallelAgent runs them all at once and ends when all have ended, an    *)
(* LlmAgent stores its final answer under its output_key.                  *)

InitPipeline ==
    /\ MOCK_DEFAULT_PROFILE = DefaultProfile
    /\ profile_result = NotCalled
    /\ user_input = <<>>
    /\ emotion_result = NotCalled
    /\ frame = NoCallers
    /\ NoRuns

Rest == <<MOCK_DEFAULT_PROFILE, profile_result, user_input, emotion_result, frame>>

\* the runner starts root_agent for a session
StartRun(s) ==
    /\ status[s][root_agent.name] = "idle"
    /\ status' = [status EXCEPT ![s][root_agent.name] = "running"]
    /\ UNCHANGED <<Rest, session_state, events>>

\* a running composite agent starts one of its sub_agents
StartSubAgent(s, parent, k) ==
    /\ Agent(parent).class \in {"SequentialAgent", "ParallelAgent"}
    /\ status[s][parent] = "running"
    /\ k \in DOMAIN Agent(parent).sub_agents
    /\ status[s][Agent(parent).sub_agents[k]] = "idle"
    /\ Agent(parent).class = "SequentialAgent" =>
          \A j \in 1..(k - 1) : status[s][Agent(parent).sub_agents[j]] = "done"
    /\ status' = [status EXCEPT ![s][Agent(parent).sub_agents[k]] = "running"]
    /\ UNCHANGED <<Rest, session_state, events>>

\* an LlmAgent ends and its answer is saved under its output_key
FinishLlmAgent(s, n) ==
    /\ Agent(n).class = "LlmAgent"
    /\ status[s][n] = "running"
    /\ status' = [status EXCEPT ![s][n] = "done"]
    /\ session_state' = [session_state EXCEPT ![s] =
                            IF Agent(n).output_key = "" THEN @ ELSE @ \cup {Agent(n).output_key}]
    /\ events' = [events EXCEPT ![s] = Append(@, n)]
    /\ UNCHANGED Rest

\* a composite agent ends when all its sub_agents have ended
FinishComposite(s, n) ==
    /\ Agent(n).class \in {"SequentialAgent", "ParallelAgent"}
    /\ status[s][n] = "running"
    /\ \A k \in DOMAIN Agent(n).sub_agents : status[s][Agent(n).sub_agents[k]] = "done"
    /\ status' = [status EXCEPT ![s][n] = "done"]
    /\ events' = [events EXCEPT ![s] = Append(@, n)]
    /\ UNCHANGED <<Rest, session_state>>

NextPipeline ==
    \E s \in Sessions :
        \/ StartRun(s)
        \/ \E parent \in AgentNames : \E k \in DOMAIN Agent(parent).sub_agents :
              StartSubAgent(s, parent, k)
        \/ \E n \in AgentNames : FinishLlmAgent(s, n)
        \/ \E n \in AgentNames : FinishComposite(s, n)

SpecPipeline == InitPipeline /\ [][NextPipeline]_vars

(* ======================= properties ==================================== *)

IsNumber(v) == v.ty \in {"int", "float"}

\* a number outside the closed interval [0, 1], scores being held in tenths
OutsideUnit(v) == IsNumber(v) /\ (v.n < 0 \/ v.n > 10)

Called == profile_result # NotCalled

Succeeded == profile_result.kind = "return"

HasVector(raw) == "preference_vector" \in DOMAIN raw

HasBudget(raw) == "max_daily_budget" \in DOMAIN raw

HasMode(raw) == "preferred_transport_mode" \in DOMAIN raw

\* all weights in [0, 1] and a budget that is not negative
ValidRaw(raw) ==
    /\ HasVector(raw)
    /\ \A i \in DOMAIN raw.preference_vector :
          IsNumber(raw.preference_vector[i][2]) /\ ~OutsideUnit(raw.preference_vector[i][2])
    /\ HasBudget(raw)
    /\ IsNumber(raw.max_daily_budget) /\ raw.max_daily_budget.n >= 0

\* the returned list has one entry per item of the raw dict, in its order,
\* with the same key and a numerically equal value
SameEntries(raw, pd) ==
    /\ Len(pd.preference_vector) = Len(raw.preference_vector)
    /\ \A i \in DOMAIN raw.preference_vector :
          /\ pd.preference_vector[i].key = raw.preference_vector[i][1]
          /\ pd.preference_vector[i].value.n = raw.preference_vector[i][2].n

\* the list of key/value entries turned back into a category -> weight dict
to_map(pd) ==
    [preference_vector |->
         [i \in DOMAIN pd.preference_vector |->
             <<pd.preference_vector[i].key, pd.preference_vector[i].value>>],
     max_daily_budget |-> pd.max_daily_budget,
     preferred_transport_mode |-> pd.preferred_transport_mode]

\* C1: for every input string analyze_user_emotion returns, without raising,
\* a MoodAnalysis whose three fields are all present.
C1_ClassifyNeverFails ==
    emotion_result # NotCalled =>
        /\ emotion_result.kind = "return"
        /\ DOMAIN emotion_result.value =
              {"primary_state", "mandatory_constraints", "budget_sensitivity"}

\* C2: a raw profile with a weight outside [0, 1] is never normalised
\* successfully: the call fails.
C2_OutOfRangeWeightRejected ==
    (/\ Called
     /\ HasVector(MOCK_DEFAULT_PROFILE)
     /\ \E i \in DOMAIN MOCK_DEFAULT_PROFILE.preference_vector :
           OutsideUnit(MOCK_DEFAULT_PROFILE.preference_vector[i][2]))
    => profile_result.kind = "raise"

\* C3: a raw profile with a negative max_daily_budget is never normalised
\* successfully: the call fails and no profile with a negative budget is
\* returned.
C3_NegativeBudgetRejected ==
    (/\ Called
     /\ HasBudget(MOCK_DEFAULT_PROFILE)
     /\ IsNumber(MOCK_DEFAULT_PROFILE.max_daily_budget)
     /\ MOCK_DEFAULT_PROFILE.max_daily_budget.n < 0)
    => profile_result.kind = "raise"

\* C4: every raw profile with all weights in [0, 1] and a non-negative budget
\* is normalised successfully, with one entry per category carrying that
\* category's weight and the budget copied unchanged.
C4_ValidProfileSucceeds ==
    (Called /\ ValidRaw(MOCK_DEFAULT_PROFILE)) =>
        /\ Succeeded
        /\ SameEntries(MOCK_DEFAULT_PROFILE, profile_result.value.profile_data)
        /\ profile_result.value.profile_data.max_daily_budget =
              MOCK_DEFAULT_PROFILE.max_daily_budget

\* C5: an otherwise valid raw profile is normalised successfully whether or
\* not it names a transport mode; the result carries the raw mode when there
\* is one and "Walk" when there is none.
C5_TransportModeDefault ==
    (Called /\ ValidRaw(MOCK_DEFAULT_PROFILE)) =>
        /\ Succeeded
        /\ profile_result.value.profile_data.preferred_transport_mode =
              IF HasMode(MOCK_DEFAULT_PROFILE)
              THEN MOCK_DEFAULT_PROFILE.preferred_transport_mode
              ELSE "Walk"

\* C6: the result is the Stress Relief assessment exactly when the lower-cased
\* text contains "stress" or "relax" and the General assessment otherwise, so
\* texts that differ only in letter case get the same result.
C6_KeywordRule ==
    emotion_result # NotCalled =>
        /\ emotion_result =
              Return(IF Contains(stress, lower(user_input)) \/ Contains(relax, lower(user_input))
                     THEN StressRelief ELSE General)
        /\ \A t \in Texts :
              lower(t) = lower(user_input) => analyze_user_emotion(t) = emotion_result

C8_ConcurrentIsolation ==
    /\ [][MOCK_DEFAULT_PROFILE' = MOCK_DEFAULT_PROFILE]_vars
    /\ [](\A c \in Callers :
            frame[c].pc = "done" =>
                frame[c].ret = IF frame[c].fn = "read_user_profile"
                               THEN read_user_profile(MOCK_DEFAULT_PROFILE)
                               ELSE analyze_user_emotion(frame[c].user_input))

C8_Witness ==
    /\ frame[1].pc = "done" /\ frame[1].fn = "read_user_profile"
    /\ frame[1].ret.kind = "return"
    /\ frame[2].pc = "done" /\ frame[2].fn = "analyze_user_emotion"
    /\ MOCK_DEFAULT_PROFILE = DefaultProfile

\* C9: Synthesizer starts only when both User_Profile_Agent and
\* Emotional_Context_Agent have ended and written their output keys,
\* logistics_agent only when Synthesizer has ended, ticket_booking_agent only
\* when logistics_agent has ended.
C9_PipelineOrder ==
    \A s \in Sessions :
        /\ status[s][synthesizer.name] # "idle" =>
              /\ status[s][UPA_Agent.name] = "done"
              /\ status[s][ECA_Agent.name] = "done"
              /\ {"user_profile", "emotional_context"} \subseteq session_state[s]
        /\ status[s][planner_agent.name] # "idle" => status[s][synthesizer.name] = "done"
        /\ status[s][ticket_booking_agent.name] # "idle" =>
              status[s][planner_agent.name] = "done"

\* the whole chain has started in a session where the emotion branch ended
\* before the profile branch, and in another where it ended after it
C9_Witness ==
    \E s, t \in Sessions :
        /\ status[s][ticket_booking_agent.name] = "running"
        /\ events[s][1] = ECA_Agent.name /\ events[s][2] = UPA_Agent.name
        /\ status[t][ticket_booking_agent.name] = "running"
        /\ events[t][1] = UPA_Agent.name /\ events[t][2] = ECA_Agent.name

\* C10: a successfully normalised profile has no two entries with the same
\* key, and its entries are in the order in which the raw mapping enumerates
\* its categories.
C10_DistinctKeysInOrder ==
    (Called /\ Succeeded) =>
        LET pv == profile_result.value.profile_data.preference_vector
        IN  /\ \A i, j \in DOMAIN pv : i # j => pv[i].key # pv[j].key
            /\ Len(pv) = Len(MOCK_DEFAULT_PROFILE.preference_vector)
            /\ \A i \in DOMAIN pv : pv[i].key = MOCK_DEFAULT_PROFILE.preference_vector[i][1]

C10_Witness ==
    /\ Called /\ Succeeded
    /\ Len(profile_result.value.profile_data.preference_vector) = MaxPrefs
    /\ profile_result.value.profile_data.preference_vector[1].key = "Nightlife"
    /\ profile_result.value.profile_data.preference_vector[2].key = "Culture/History"

====
